---------------------------- MODULE Spec2Model ----------------------------
(***************************************************************************)
(* The asc-lottery plugin: ticket purchase (buyTicket), the daily draw     *)
(* (drawWinningNumbers, scheduleDraw, initializeLottery) and the           *)
(* administrative simulatedraw command, over an external document store,   *)
(* a currency ledger and a character directory.  Every awaited external    *)
(* call is one atomic step; the synchronous code that follows it up to the *)
(* next await belongs to the same step.                                    *)
(***************************************************************************)
EXTENDS Integers, Sequences, FiniteSets, TLC

(***************************************************************************)
(* Program constants.                                                      *)
(***************************************************************************)
NumberMin == 1
NumberMax == 49
NumberCount == 6
DrawHour == 18
DrawMinute == 0
HoursPerDay == 24
MinutesPerHour == 60
\* lotteryConfig (config.js): the values of the specification's scenario.
TicketPrice == 100
InitialJackpot == 500

(***************************************************************************)
(* Bounds of the model.                                                    *)
(***************************************************************************)
NumPlayers == 2
NumCalls == 2
\* the tickets the players can pay in all
MaxAfford == 2
\* Math.random() is sampled at NumSamples evenly spread points of [0,1),
\* given as numerators over RandDen
NumSamples == 7
RandDen == 1000
\* seeds of the random stream a draw may consume
NumSeeds == 1
\* clock resolution and horizon
TicksPerMinute == 2
MaxDay == 0
\* ticks the clock may advance between two of its readings in one operation
MaxElapsed == 1
\* operations that may be in flight at once
MaxInFlight == 2

Players == 1..NumPlayers
Calls == 1..NumCalls
Seeds == 0..(NumSeeds - 1)

\* JavaScript's null and undefined, by the type of what is missing
NoDoc == [type |-> "none"]
Null == [null |-> TRUE]
NullArray == <<>>
NoTimer == -1
NaN == [nan |-> TRUE]
SP == " "

(***************************************************************************)
(* JavaScript numbers as they come out of Number(token): NaN, or a value   *)
(* i + f/10 with one decimal digit.                                        *)
(***************************************************************************)
Num(i, f) == [i |-> i, f |-> f]
IntNum(n) == Num(n, 0)
isNaN(n) == n = NaN
NumLess(n, k) == n.i < k
NumGreater(n, k) == n.i > k \/ (n.i = k /\ n.f > 0)

\* Number(token) on the token texts the model feeds it.
Number(tok) ==
    CASE tok = "" -> IntNum(0)
      [] tok = "0" -> IntNum(0)
      [] tok = "1" -> IntNum(1)
      [] tok = "2" -> IntNum(2)
      [] tok = "3" -> IntNum(3)
      [] tok = "4" -> IntNum(4)
      [] tok = "5" -> IntNum(5)
      [] tok = "6" -> IntNum(6)
      [] tok = "9" -> IntNum(9)
      [] tok = "17" -> IntNum(17)
      [] tok = "25" -> IntNum(25)
      [] tok = "49" -> IntNum(49)
      [] tok = "50" -> IntNum(50)
      [] tok = "-1" -> IntNum(-1)
      [] tok = "1.5" -> Num(1, 5)
      [] OTHER -> NaN

\* String.prototype.split(' ') on a string given as a sequence of token
\* texts and separators: every separator starts a new (possibly empty) token.
RECURSIVE SplitFrom(_, _, _)
SplitFrom(s, i, acc) ==
    IF i > Len(s) THEN acc
    ELSE IF s[i] = SP THEN SplitFrom(s, i + 1, Append(acc, ""))
    ELSE SplitFrom(s, i + 1, [acc EXCEPT ![Len(acc)] = s[i]])

Split(s) == SplitFrom(s, 1, <<"">>)

\* Array.prototype.join(' ')
RECURSIVE Join(_)
Join(args) ==
    IF Len(args) = 0 THEN <<>>
    ELSE IF Len(args) = 1 THEN <<args[1]>>
    ELSE <<args[1], SP>> \o Join(Tail(args))

\* a variant of InRange without the upper limit
InRangeNoMax(n) == ~NumLess(n, 1)

\* line 126: n < 1 || n > 49, negated
InRange(n) == ~(NumLess(n, 1) \/ NumGreater(n, 49))

parseTicketNumbers(numbersString) ==
    LET numbers == [k \in 1..Len(Split(numbersString)) |-> Number(Split(numbersString)[k])]
    IN  IF Len(numbers) # 6
           \/ (\E k \in 1..Len(numbers) : isNaN(numbers[k]))
           \/ (\E k \in 1..Len(numbers) : ~isNaN(numbers[k]) /\ ~InRange(numbers[k]))
        THEN NullArray
        ELSE numbers

(***************************************************************************)
(* Math.random(): the k-th sample point, and the stream a seed stands for  *)
(* (every sample comes twice in a row, so rejection sampling has to        *)
(* reject).                                                                *)
(***************************************************************************)
Sample(k) == (k * (RandDen - 1)) \div (NumSamples - 1)
MathRandom(seed, i) == Sample((seed + (i \div 2)) % NumSamples)

\* Math.floor(Math.random() * (max - min + 1)) + min
RandomInRange(r, min, max) == ((r * (max - min + 1)) \div RandDen) + min

SeqRange(s) == {s[k] : k \in 1..Len(s)}

\* a variant of SetAdd that keeps duplicates
ListAdd(numbers, x) == Append(numbers, x)

\* numbers.add(x) on a Set kept in insertion order
SetAdd(numbers, x) == IF x \in SeqRange(numbers) THEN numbers ELSE Append(numbers, x)

RECURSIVE generateFrom(_, _, _, _, _, _)
generateFrom(numbers, count, min, max, seed, i) ==
    IF Len(numbers) >= count THEN numbers
    ELSE generateFrom(SetAdd(numbers, RandomInRange(MathRandom(seed, i), min, max)),
                      count, min, max, seed, i + 1)

generateRandomNumbers(count, min, max, seed) == generateFrom(<<>>, count, min, max, seed, 1)

\* Array(6).fill(0).map(() => Math.floor(Math.random() * 49) + 1)
simulatedNumbers(seed) == [k \in 1..6 |-> ((MathRandom(seed, k) * 49) \div RandDen) + 1]

checkWinningTicket(ticket, winningNumbers) ==
    \A k \in 1..Len(ticket.ticketNumbers) :
        \E j \in 1..Len(winningNumbers) : ticket.ticketNumbers[k] = IntNum(winningNumbers[j])

(***************************************************************************)
(* Wall-clock time in ticks since local midnight of day 0.                 *)
(***************************************************************************)
TicksPerHour == MinutesPerHour * TicksPerMinute
TicksPerDay == HoursPerDay * TicksPerHour
DayOf(t) == t \div TicksPerDay

\* new Date(year, month, date, hour, minute, 0, 0)
DateAt(day, hour, minute) == day * TicksPerDay + hour * TicksPerHour + minute * TicksPerMinute

\* a variant of SchedulePassed that counts the very instant as passed
SchedulePassedOrNow(now, nextDraw) == now >= nextDraw

\* line 202: now > nextDraw
SchedulePassed(now, nextDraw) == now > nextDraw

\* lines 199-204: today's draw time, moved to the next day if it has passed
NextDrawInstant(now) ==
    LET nextDraw == DateAt(DayOf(now), DrawHour, DrawMinute)
    IN  IF SchedulePassed(now, nextDraw) THEN nextDraw + TicksPerDay ELSE nextDraw

(***************************************************************************)
(* State.  The bank accounts of the ledger are never read by the plugin:   *)
(* the model keeps the credits made to them, not their balances.           *)
(***************************************************************************)
VARIABLES
    lottery,      \* the 'lottery' document of collection misc, or NoDoc
    tickets,      \* the ticket collection: records [id, playerUUID, ticketNumbers]
    cash,         \* currency ledger, account cash, of every player
    paid,         \* the credits to bank accounts made by the draw in progress
    init,         \* initializeLottery: its position
    buy,          \* buyTicket calls: position and locals of each
    draw,         \* the timer callback and its drawWinningNumbers call
    sim,          \* the simulatedraw command
    now,          \* the last reading of the clock
    timer,        \* the instant the pending setTimeout fires at, or NoTimer
    limit         \* how many operations the host runs at once

vars == <<lottery, tickets, cash, paid, init, buy, draw, sim, now, timer, limit>>

store == <<lottery, tickets>>

\* the document initializeLottery creates
NewLotteryState ==
    [type |-> "lottery", ticketPrice |-> TicketPrice, jackpot |-> InitialJackpot,
     winningNumbers |-> <<>>]

\* the number strings callers pass to buyTicket: six numbers in range (which
\* need not differ), five numbers, and six with one out of range
ValidInput == Join(<<"1", "9", "9", "17", "17", "25">>)
TicketInputs ==
    { ValidInput,
      Join(<<"1", "2", "3", "4", "5">>),
      Join(<<"1", "2", "3", "4", "5", "50">>) }

IdleBuy == [pc |-> "idle", player |-> 0, numbers |-> <<>>, ticketNumbers |-> NullArray,
            newTicket |-> Null, lotteryState |-> NoDoc, line |-> 0, result |-> Null]
\* sent counts the broadcasts (NotificationAPI.general.sendAll) of the call
IdleDraw == [pc |-> "idle", lotteryState |-> NoDoc, winningTickets |-> <<>>,
             jackpotShare |-> 0, allTickets |-> <<>>, i |-> 0, sent |-> 0, result |-> <<>>]
IdleSim == [pc |-> "idle", lotteryState |-> NoDoc, allTickets |-> <<>>, i |-> 0]

StartTime == DateAt(0, DrawHour, DrawMinute) - 1

\* The store and the ledger the server starts on.  A first start finds no
\* ticket, and a LotteryState only if an earlier start created it; the first
\* players can pay one ticket each.  A restart finds what earlier purchases
\* left: here the last player has bought a ticket with all but a rest of their
\* cash, and player 1 can pay MaxAfford tickets.  Nobody's cash is a multiple
\* of the price.
Rest == TicketPrice \div 2
FirstStart ==
    { [lottery |-> l, tickets |-> {},
       cash |-> [p \in Players |-> (IF p <= MaxAfford THEN TicketPrice ELSE 0) + Rest]] :
      l \in {NoDoc, NewLotteryState} }
Restart ==
    { [lottery |-> [NewLotteryState EXCEPT !.jackpot = @ + TicketPrice],
       tickets |-> {[id |-> 1, playerUUID |-> NumPlayers,
                     ticketNumbers |-> parseTicketNumbers(ValidInput)]},
       cash |-> [p \in Players |-> (IF p = 1 THEN MaxAfford * TicketPrice ELSE 0) + Rest]] }

Init ==
    /\ \E w \in FirstStart \cup Restart :
          /\ lottery = w.lottery
          /\ tickets = w.tickets
          /\ cash = w.cash
    /\ paid = <<>>
    /\ init = "get"
    /\ buy = [c \in Calls |-> IdleBuy]
    /\ draw = IdleDraw
    /\ sim = IdleSim
    /\ now = StartTime
    /\ timer = NoTimer
    /\ limit \in {1, MaxInFlight}

(***************************************************************************)
(* The external services.                                                  *)
(***************************************************************************)
\* Database.get({playerUUID}, ticketCollection)
TicketsOf(uuid) == {t \in tickets : t.playerUUID = uuid}

\* Database.getAll(ticketCollection): the documents in creation order
RECURSIVE SortById(_)
SortById(S) ==
    IF S = {} THEN <<>>
    ELSE LET t == CHOOSE x \in S : \A y \in S : x.id <= y.id
         IN  <<t>> \o SortById(S \ {t})

GetAll == SortById(tickets)

\* a variant of DeleteById for a store that deletes nothing
DeleteNothing(id) == tickets

\* Database.deleteDocument / Database.destroy by _id
DeleteById(id) == {t \in tickets : t.id # id}

\* a variant of Update for a store that ignores the update
UpdateIgnored(doc) == lottery

\* a variant of Update for a store that drops the document it is to update
UpdateRemoves(doc) == NoDoc

\* Database.update(doc, 'misc') sets every field of the stored document that
\* has the _id of doc to the value doc has; it inserts nothing
Update(doc) == IF lottery = NoDoc THEN lottery ELSE doc

\* a variant of HasEnough for a ledger that never refuses
HasEnoughAlways(p, amount) == TRUE

\* CurrencyAPI.useCurrency(id, 'Character').sub('cash', amount): hasEnough
HasEnough(p, amount) == cash[p] >= amount
CurrencySub(p, amount) == IF HasEnough(p, amount) THEN [cash EXCEPT ![p] = @ - amount] ELSE cash

\* CurrencyAPI.useCurrency(id, 'Character').add('bank', amount)
CurrencyAdd(ticket, amount) ==
    Append(paid, [ticket |-> ticket.id, to |-> ticket.playerUUID, amount |-> amount])

\* Database.create gives the new document an id that no document has and no
\* operation still holds
HeldIds ==
    {t.id : t \in tickets}
      \cup {draw.winningTickets[k].id : k \in 1..Len(draw.winningTickets)}
      \cup {draw.allTickets[k].id : k \in 1..Len(draw.allTickets)}
      \cup {sim.allTickets[k].id : k \in 1..Len(sim.allTickets)}
      \cup {paid[k].ticket : k \in 1..Len(paid)}
      \cup {buy[c].newTicket.id : c \in {d \in Calls : buy[d].newTicket # Null}}
      \cup {buy[c].result.id : c \in {d \in Calls : buy[d].result # Null}}

FreshId == CHOOSE id \in 1..(Cardinality(HeldIds) + 1) : id \notin HeldIds

\* operations in flight; the host runs at most limit at once
InFlight ==
    (IF init = "done" THEN 0 ELSE 1)
      + Cardinality({c \in Calls : buy[c].pc # "idle"})
      + (IF draw.pc \in {"idle", "rejected"} THEN 0 ELSE 1)
      + (IF sim.pc = "idle" THEN 0 ELSE 1)

CanStart == InFlight < limit

\* A function that has returned hands its value to the code awaiting it, which
\* runs to its end before any other callback of the process runs.
Returning == draw.pc = "returned" \/ \E c \in Calls : buy[c].pc = "return"

(***************************************************************************)
(* initializeLottery and scheduleDraw.                                     *)
(***************************************************************************)
\* scheduleDraw(): reads the clock, which has advanced by elapsed ticks since
\* its last reading, and arms the timer
scheduleDraw(elapsed) ==
    /\ now' = now + elapsed
    /\ timer' = NextDrawInstant(now + elapsed)

\* line 30: Database.get({type: 'lottery'}, 'misc')
InitGet ==
    /\ ~Returning
    /\ init = "get"
    /\ IF lottery # NoDoc
       THEN /\ init' = "done"
            /\ \E elapsed \in 0..MaxElapsed : scheduleDraw(elapsed)
       ELSE /\ init' = "create"
            /\ UNCHANGED <<now, timer>>
    /\ UNCHANGED <<store, cash, paid, buy, draw, sim, limit>>

\* line 39: Database.create(lotteryState, 'misc'), which may fail and give no id
InitCreate ==
    /\ ~Returning
    /\ init = "create"
    /\ init' = "done"
    /\ \E created \in BOOLEAN :
          lottery' = IF created THEN NewLotteryState ELSE lottery
    /\ \E elapsed \in 0..MaxElapsed : scheduleDraw(elapsed)
    /\ UNCHANGED <<tickets, cash, paid, buy, draw, sim, limit>>

initializeLottery == InitGet \/ InitCreate

(***************************************************************************)
(* buyTicket(player, numbers), call c, and the caller that awaits it (the  *)
(* buyticket command).                                                     *)
(***************************************************************************)
BuyFrame == UNCHANGED <<paid, init, draw, sim, now, timer, limit>>

\* the call returns value at the given line
Return(b, line, value) ==
    [IdleBuy EXCEPT !.pc = "return", !.player = b.player, !.line = line, !.result = value]

\* lines 67-72: the character of the player, parseTicketNumbers, and the
\* Database.get of line 74 issued
Parsed(p, numbers) ==
    LET ticketNumbers == parseTicketNumbers(numbers)
    IN  IF ticketNumbers = NullArray
        THEN Return([IdleBuy EXCEPT !.player = p], 71, Null)
        ELSE [IdleBuy EXCEPT !.pc = "getTicket", !.player = p, !.ticketNumbers = ticketNumbers]

BuyCall(c, p, numbers) ==
    /\ ~Returning
    /\ buy[c].pc = "idle"
    /\ \A d \in Calls : d < c => buy[d].pc # "idle"
    /\ CanStart
    /\ buy' = [buy EXCEPT ![c] = Parsed(p, numbers)]
    /\ UNCHANGED <<store, cash>>
    /\ BuyFrame

\* a variant of ExistingTicket for a lookup that finds nothing
ExistingTicketNone(uuid) == FALSE

\* lines 74-79: the existing ticket of the player, if any
ExistingTicket(uuid) == TicketsOf(uuid) # {}

\* lines 74-86
BuyGetTicket(c) ==
    /\ ~Returning
    /\ buy[c].pc = "getTicket"
    /\ buy' = [buy EXCEPT ![c] =
                 IF ExistingTicket(buy[c].player)
                 THEN Return(@, 85, Null)
                 ELSE [@ EXCEPT !.pc = "sub"]]
    /\ UNCHANGED <<store, cash>>
    /\ BuyFrame

\* lines 89-97: the debit of the ticket price
BuySub(c) ==
    /\ ~Returning
    /\ buy[c].pc = "sub"
    /\ cash' = CurrencySub(buy[c].player, TicketPrice)
    /\ buy' = [buy EXCEPT ![c] =
                 IF HasEnough(buy[c].player, TicketPrice)
                 THEN [@ EXCEPT !.pc = "create"]
                 ELSE Return(@, 96, Null)]
    /\ UNCHANGED store
    /\ BuyFrame

\* lines 99-107: Database.create(newTicket), which may fail and give no id
BuyCreate(c) ==
    /\ ~Returning
    /\ buy[c].pc = "create"
    /\ \E created \in BOOLEAN :
          IF created
          THEN LET newTicket == [id |-> FreshId, playerUUID |-> buy[c].player,
                                 ticketNumbers |-> buy[c].ticketNumbers]
               IN  /\ tickets' = tickets \cup {newTicket}
                   /\ buy' = [buy EXCEPT ![c] = [@ EXCEPT !.pc = "getState",
                                                          !.newTicket = newTicket]]
          ELSE /\ buy' = [buy EXCEPT ![c] = Return(@, 105, Null)]
               /\ UNCHANGED tickets
    /\ UNCHANGED <<lottery, cash>>
    /\ BuyFrame

\* a variant of RaiseJackpot that leaves the jackpot as it is
RaiseNothing(lotteryState) == lotteryState

\* line 111
RaiseJackpot(lotteryState) == [lotteryState EXCEPT !.jackpot = @ + lotteryState.ticketPrice]

\* lines 109-111: the lottery state re-read, the jackpot raised in the copy
BuyGetState(c) ==
    /\ ~Returning
    /\ buy[c].pc = "getState"
    /\ buy' = [buy EXCEPT ![c] =
                 IF lottery # NoDoc
                 THEN [@ EXCEPT !.pc = "update", !.lotteryState = RaiseJackpot(lottery)]
                 ELSE Return(@, 115, buy[c].newTicket)]
    /\ UNCHANGED <<store, cash>>
    /\ BuyFrame

\* lines 112-115: Database.update(lotteryState, 'misc') sets every field of
\* the document to the copy's
BuyUpdate(c) ==
    /\ ~Returning
    /\ buy[c].pc = "update"
    /\ lottery' = Update(buy[c].lotteryState)
    /\ buy' = [buy EXCEPT ![c] = Return(@, 115, buy[c].newTicket)]
    /\ UNCHANGED <<tickets, cash>>
    /\ BuyFrame

\* testCommands.ts lines 29-46: the caller has the result and notifies the player
BuyResult(c) ==
    /\ buy[c].pc = "return"
    /\ buy' = [buy EXCEPT ![c] = IdleBuy]
    /\ UNCHANGED <<store, cash>>
    /\ BuyFrame

buyTicket(c) ==
    \/ \E p \in Players, numbers \in TicketInputs : BuyCall(c, p, numbers)
    \/ BuyGetTicket(c)
    \/ BuySub(c)
    \/ BuyCreate(c)
    \/ BuyGetState(c)
    \/ BuyUpdate(c)

(***************************************************************************)
(* The timer callback of scheduleDraw: drawWinningNumbers(), then          *)
(* scheduleDraw().                                                         *)
(***************************************************************************)
DrawFrame == UNCHANGED <<init, buy, sim, cash, limit>>

\* the setTimeout of line 206 fires
TimerFire ==
    /\ ~Returning
    /\ timer # NoTimer
    /\ DayOf(timer) <= MaxDay
    /\ draw.pc = "idle"
    /\ CanStart
    /\ now' = IF now < timer THEN timer ELSE now
    /\ timer' = NoTimer
    /\ draw' = [IdleDraw EXCEPT !.pc = "getState"]
    /\ UNCHANGED <<lottery, tickets, paid>>
    /\ DrawFrame

\* a variant of DrawReturn that returns drawn numbers in any case
DrawReturnDrawn(winningNumbers) ==
    [IdleDraw EXCEPT !.pc = "returned", !.sent = draw.sent,
                     !.result = generateRandomNumbers(NumberCount, NumberMin, NumberMax, 0)]

\* drawWinningNumbers returns winningNumbers to the callback
DrawReturn(winningNumbers) ==
    [IdleDraw EXCEPT !.pc = "returned", !.sent = draw.sent, !.result = winningNumbers]

\* lines 139-142: the lottery state read, the winning numbers drawn
DrawGetState ==
    /\ ~Returning
    /\ draw.pc = "getState"
    /\ IF lottery = NoDoc
       THEN draw' = DrawReturn(<<>>)
       ELSE \E seed \in Seeds :
               draw' = [draw EXCEPT
                          !.pc = "update1",
                          !.lotteryState =
                              [lottery EXCEPT
                                 !.winningNumbers =
                                     generateRandomNumbers(NumberCount, NumberMin, NumberMax, seed)]]
    /\ UNCHANGED <<lottery, tickets, paid, now, timer>>
    /\ DrawFrame

\* line 143: Database.update(lotteryState, 'misc')
DrawUpdate1 ==
    /\ ~Returning
    /\ draw.pc = "update1"
    /\ lottery' = Update(draw.lotteryState)
    /\ draw' = [draw EXCEPT !.pc = "getAll"]
    /\ UNCHANGED <<tickets, paid, now, timer>>
    /\ DrawFrame

\* a variant of JackpotShare that rounds up
JackpotShareCeiling(jackpot, n) == (jackpot + n - 1) \div n

\* line 149
JackpotShare(jackpot, n) == jackpot \div n

\* lines 145-149: every ticket of the collection is a winning ticket; with no
\* ticket, the broadcast of line 166 and the listing of line 174 issued
DrawGetAll ==
    /\ ~Returning
    /\ draw.pc = "getAll"
    /\ LET winningTickets == GetAll
       IN  draw' = IF Len(winningTickets) > 0
                   THEN [draw EXCEPT
                           !.pc = "getCharacter",
                           !.winningTickets = winningTickets,
                           !.jackpotShare =
                               JackpotShare(draw.lotteryState.jackpot, Len(winningTickets)),
                           !.i = 1]
                   ELSE [draw EXCEPT !.pc = "getAll2", !.sent = @ + 1]
    /\ UNCHANGED <<lottery, tickets, paid, now, timer>>
    /\ DrawFrame

\* the payout loop moves on to the next ticket; after the last one the copy's
\* jackpot is reset (line 162) and the update of line 163 issued
NextWinner ==
    IF draw.i < Len(draw.winningTickets)
    THEN [draw EXCEPT !.pc = "getCharacter", !.i = @ + 1]
    ELSE [draw EXCEPT !.pc = "update2", !.i = 0, !.winningTickets = <<>>,
                      !.jackpotShare = 0,
                      !.lotteryState = [@ EXCEPT !.jackpot = InitialJackpot]]

\* lines 152-156: the character of the ticket's owner, which the directory
\* may no longer hold
DrawGetCharacter ==
    /\ ~Returning
    /\ draw.pc = "getCharacter"
    /\ \E winnerCharacter \in BOOLEAN :
          draw' = IF winnerCharacter THEN [draw EXCEPT !.pc = "add"] ELSE NextWinner
    /\ UNCHANGED <<lottery, tickets, paid, now, timer>>
    /\ DrawFrame

\* line 158: the share credited to the bank account
DrawAdd ==
    /\ ~Returning
    /\ draw.pc = "add"
    /\ paid' = CurrencyAdd(draw.winningTickets[draw.i], draw.jackpotShare)
    /\ draw' = NextWinner
    /\ UNCHANGED <<lottery, tickets, now, timer>>
    /\ DrawFrame

\* line 163: Database.update(lotteryState, 'misc'); the broadcast of line 166
DrawUpdate2 ==
    /\ ~Returning
    /\ draw.pc = "update2"
    /\ lottery' = Update(draw.lotteryState)
    /\ draw' = [draw EXCEPT !.pc = "getAll2", !.sent = @ + 1]
    /\ UNCHANGED <<tickets, paid, now, timer>>
    /\ DrawFrame

\* line 174: the tickets to delete
DrawGetAll2 ==
    /\ ~Returning
    /\ draw.pc = "getAll2"
    /\ LET allTickets == GetAll
       IN  draw' = IF Len(allTickets) > 0
                   THEN [draw EXCEPT !.pc = "delete", !.allTickets = allTickets, !.i = 1]
                   ELSE DrawReturn(draw.lotteryState.winningNumbers)
    /\ UNCHANGED <<lottery, tickets, paid, now, timer>>
    /\ DrawFrame

\* lines 175-179: Database.deleteDocument(ticket._id)
DrawDelete ==
    /\ ~Returning
    /\ draw.pc = "delete"
    /\ tickets' = DeleteById(draw.allTickets[draw.i].id)
    /\ draw' = IF draw.i < Len(draw.allTickets)
               THEN [draw EXCEPT !.i = @ + 1]
               ELSE DrawReturn(draw.lotteryState.winningNumbers)
    /\ UNCHANGED <<lottery, paid, now, timer>>
    /\ DrawFrame

\* lines 207-208: drawWinningNumbers has returned; scheduleDraw()
DrawReschedule ==
    /\ draw.pc = "returned"
    /\ draw' = IdleDraw
    /\ paid' = <<>>
    /\ \E elapsed \in 0..MaxElapsed : scheduleDraw(elapsed)
    /\ UNCHANGED <<lottery, tickets>>
    /\ DrawFrame

\* An awaited external call of drawWinningNumbers fails: the promise of
\* drawWinningNumbers rejects, and so does the timer callback (lines 206-209),
\* which has no handler: scheduleDraw() of line 208 is never reached.  The
\* process is taken to go on after the unhandled rejection.
DrawAwaits ==
    {"getState", "update1", "getAll", "getCharacter", "add", "update2", "getAll2", "delete"}

DrawThrow ==
    /\ ~Returning
    /\ draw.pc \in DrawAwaits
    /\ draw' = [IdleDraw EXCEPT !.pc = "rejected"]
    /\ paid' = <<>>
    /\ UNCHANGED <<lottery, tickets, now, timer>>
    /\ DrawFrame

drawWinningNumbers ==
    \/ DrawGetState
    \/ DrawUpdate1
    \/ DrawGetAll
    \/ DrawGetCharacter
    \/ DrawAdd
    \/ DrawUpdate2
    \/ DrawGetAll2
    \/ DrawDelete
    \/ DrawThrow

(***************************************************************************)
(* The simulatedraw command (testCommands.ts).                             *)
(***************************************************************************)
SimFrame == UNCHANGED <<init, buy, draw, cash, paid, now, timer, limit>>

\* line 59: the command runs; the Database.get of line 61 issued
SimCall ==
    /\ ~Returning
    /\ sim.pc = "idle"
    /\ CanStart
    /\ sim' = [IdleSim EXCEPT !.pc = "getState"]
    /\ UNCHANGED <<lottery, tickets>>
    /\ SimFrame

\* lines 61-68
SimGetState ==
    /\ ~Returning
    /\ sim.pc = "getState"
    /\ IF lottery = NoDoc
       THEN sim' = IdleSim
       ELSE \E seed \in Seeds :
               sim' = [sim EXCEPT
                         !.pc = "update",
                         !.lotteryState =
                             [lottery EXCEPT !.winningNumbers = simulatedNumbers(seed)]]
    /\ UNCHANGED <<lottery, tickets>>
    /\ SimFrame

\* line 69
SimUpdate ==
    /\ ~Returning
    /\ sim.pc = "update"
    /\ lottery' = Update(sim.lotteryState)
    /\ sim' = [sim EXCEPT !.pc = "getWinner"]
    /\ UNCHANGED tickets
    /\ SimFrame

\* Database.get({ticketNumbers: winningNumbers}, ticketCollection)
TicketsWithNumbers(winningNumbers) ==
    {t \in tickets : t.ticketNumbers = [k \in 1..Len(winningNumbers) |-> IntNum(winningNumbers[k])]}

\* lines 71-79
SimGetWinner ==
    /\ ~Returning
    /\ sim.pc = "getWinner"
    /\ sim' = IF TicketsWithNumbers(sim.lotteryState.winningNumbers) # {}
              THEN [sim EXCEPT !.pc = "getCharacter"]
              ELSE [sim EXCEPT !.pc = "getAll"]
    /\ UNCHANGED <<lottery, tickets>>
    /\ SimFrame

\* lines 80-90: the winner's name, for the broadcast
SimGetCharacter ==
    /\ ~Returning
    /\ sim.pc = "getCharacter"
    /\ sim' = [sim EXCEPT !.pc = "getAll"]
    /\ UNCHANGED <<lottery, tickets>>
    /\ SimFrame

\* lines 92-95
SimGetAll ==
    /\ ~Returning
    /\ sim.pc = "getAll"
    /\ LET allTickets == GetAll
       IN  sim' = IF Len(allTickets) > 0
                  THEN [sim EXCEPT !.pc = "destroy", !.lotteryState = NoDoc,
                                   !.allTickets = allTickets, !.i = 1]
                  ELSE IdleSim
    /\ UNCHANGED <<lottery, tickets>>
    /\ SimFrame

\* lines 97-104: Database.destroy(ticket._id)
SimDestroy ==
    /\ ~Returning
    /\ sim.pc = "destroy"
    /\ tickets' = DeleteById(sim.allTickets[sim.i].id)
    /\ sim' = IF sim.i < Len(sim.allTickets) THEN [sim EXCEPT !.i = @ + 1] ELSE IdleSim
    /\ UNCHANGED lottery
    /\ SimFrame

\* lines 101-103: a Database.destroy that fails is logged, and the loop goes on
SimDestroyThrow ==
    /\ ~Returning
    /\ sim.pc = "destroy"
    /\ sim' = IF sim.i < Len(sim.allTickets) THEN [sim EXCEPT !.i = @ + 1] ELSE IdleSim
    /\ UNCHANGED <<lottery, tickets>>
    /\ SimFrame

\* lines 106-113: any other awaited call that fails ends the command in its
\* catch block
SimAwaits == {"getState", "update", "getWinner", "getCharacter", "getAll"}

SimThrow ==
    /\ ~Returning
    /\ sim.pc \in SimAwaits
    /\ sim' = IdleSim
    /\ UNCHANGED <<lottery, tickets>>
    /\ SimFrame

simulatedraw ==
    \/ SimCall
    \/ SimGetState
    \/ SimUpdate
    \/ SimGetWinner
    \/ SimGetCharacter
    \/ SimGetAll
    \/ SimDestroy
    \/ SimDestroyThrow
    \/ SimThrow

Next ==
    \/ initializeLottery
    \/ \E c \in Calls : buyTicket(c) \/ BuyResult(c)
    \/ TimerFire
    \/ drawWinningNumbers
    \/ DrawReschedule
    \/ simulatedraw

Spec == Init /\ [][Next]_vars

(***************************************************************************)
(* scheduleDraw alone, run at every instant of the days of the horizon.    *)
(***************************************************************************)
ClockReadings == 0..((MaxDay + 1) * TicksPerDay - 1)

SchedInit ==
    /\ lottery = NewLotteryState
    /\ tickets = {}
    /\ cash = [p \in Players |-> Rest]
    /\ paid = <<>>
    /\ init = "done"
    /\ buy = [c \in Calls |-> IdleBuy]
    /\ draw = IdleDraw
    /\ sim = IdleSim
    /\ now \in ClockReadings
    /\ timer = NoTimer
    /\ limit = 1

SchedNext ==
    /\ timer = NoTimer
    /\ \E elapsed \in 0..MaxElapsed : scheduleDraw(elapsed)
    /\ UNCHANGED <<store, cash, paid, init, buy, draw, sim, limit>>

SpecSched == SchedInit /\ [][SchedNext]_vars

(***************************************************************************)
(* parseTicketNumbers alone: a call of buyTicket by the buyticket command  *)
(* with the argument lists below, run up to its parse (lines 67-72).       *)
(***************************************************************************)
ParseTokens == {"0", "1", "2", "49", "50", "-1", "1.5", "x"}
ParseLengths == (NumberCount - 1)..(NumberCount + 1)

\* the argument lists: all "2", with up to two arguments replaced
ParseArgs ==
    UNION { { [[k \in 1..n |-> "2"] EXCEPT ![i] = t, ![j] = u] :
                i \in 1..n, j \in 1..n, t \in ParseTokens, u \in ParseTokens } :
            n \in ParseLengths }

ParseInit ==
    /\ lottery = NewLotteryState
    /\ tickets = {}
    /\ cash = [p \in Players |-> Rest]
    /\ paid = <<>>
    /\ init = "done"
    /\ \E args \in ParseArgs :
          buy = [c \in Calls |->
                   IF c = 1
                   THEN [IdleBuy EXCEPT !.pc = "called", !.player = 1, !.numbers = Join(args)]
                   ELSE IdleBuy]
    /\ draw = IdleDraw
    /\ sim = IdleSim
    /\ now = StartTime
    /\ timer = NoTimer
    /\ limit = 1

\* lines 67-72 of a call already made
BuyParse(c) ==
    /\ buy[c].pc = "called"
    /\ buy' = [buy EXCEPT ![c] = Parsed(buy[c].player, buy[c].numbers)]
    /\ UNCHANGED <<store, cash>>
    /\ BuyFrame

ParseNext == \E c \in Calls : BuyParse(c)

SpecParse == ParseInit /\ [][ParseNext]_vars

(***************************************************************************)
(* Properties.                                                             *)
(***************************************************************************)

\* C1: in every reachable state, interleaved buyTicket calls of one identity
\* included, the ticket collection holds at most one ticket per owner.
C1_OneTicketPerOwner == \A p \in Players : Cardinality(TicketsOf(p)) <= 1

\* C2: when the lookup of lines 74-79 runs for an identity that holds a
\* persisted ticket, the call returns null at once, whatever the identity's
\* balance, and neither that step nor the call before it has debited
\* anything, created a ticket or changed the LotteryState.
C2_DuplicateFails ==
    [][\A c \in Calls :
          (buy[c].pc = "getTicket" /\ buy'[c] # buy[c] /\ TicketsOf(buy[c].player) # {})
            => /\ buy'[c].pc = "return"
               /\ buy'[c].result = Null
               /\ UNCHANGED <<cash, tickets, lottery>>]_vars

\* a call of an identity that holds a ticket and could pay another has
\* returned from the duplicate branch
C2_Witness ==
    \E c \in Calls :
        /\ buy[c].pc = "return"
        /\ buy[c].line = 85
        /\ TicketsOf(buy[c].player) # {}
        /\ cash[buy[c].player] >= TicketPrice

\* the tokens of a number string, counted and valued without splitting it
TokenCount(s) == Cardinality({k \in 1..Len(s) : s[k] = SP}) + 1
OutOfRange(tok) ==
    /\ ~isNaN(Number(tok))
    /\ (Number(tok).i < NumberMin \/ Number(tok).i > NumberMax
          \/ (Number(tok).i = NumberMax /\ Number(tok).f > 0))
ViolatesCountOrRange(s) ==
    \/ TokenCount(s) # NumberCount
    \/ \E k \in 1..Len(s) : s[k] # SP /\ OutOfRange(s[k])

\* C3: a buyTicket call whose input has not exactly 6 tokens or has a number
\* outside [1,49] returns null in the step of the call itself, before any
\* store or currency call: no debit, no ticket, no LotteryState change.
C3_InvalidRejected ==
    [][\A c \in Calls :
          (buy[c].pc = "idle" /\ buy'[c] # buy[c])
            => \A p \in {buy'[c].player}, numbers \in TicketInputs :
                  (ViolatesCountOrRange(numbers) /\ BuyCall(c, p, numbers))
                    => /\ buy'[c].pc = "return"
                       /\ buy'[c].line = 71
                       /\ buy'[c].result = Null
                       /\ UNCHANGED <<lottery, tickets, cash>>]_vars

\* a call has been rejected at line 71
C3_Witness ==
    \E c \in Calls : buy[c].pc = "return" /\ buy[c].line = 71 /\ buy[c].result = Null

\* C4: when the debit of line 89 reports insufficient funds, buyTicket
\* returns null and has created no ticket and left the LotteryState, jackpot
\* included, as it was.
C4_InsufficientFunds ==
    [][\A c \in Calls :
          (buy[c].pc = "sub" /\ buy'[c] # buy[c] /\ cash[buy[c].player] < TicketPrice)
            => /\ buy'[c].pc = "return"
               /\ buy'[c].result = Null
               /\ buy'[c].newTicket = Null
               /\ UNCHANGED <<tickets, lottery>>]_vars

\* a call of an identity that cannot pay has returned from line 96
C4_Witness ==
    \E c \in Calls :
        /\ buy[c].pc = "return"
        /\ buy[c].line = 96
        /\ cash[buy[c].player] < TicketPrice

\* C5: a draw that has read jackpot J (line 139) and listed N >= 1 tickets
\* (line 145) credits floor(J/N) to the bank account of the owner of each
\* ticket whose owner resolves to a character, once per ticket; nothing else
\* is ever credited to any balance.  When no other operation is interleaved,
\* J and N are the jackpot and the number of tickets in the store.
C5_PayoutShare ==
    [][/\ \A p \in Players : cash'[p] <= cash[p]
       /\ (paid' # paid /\ paid' # <<>>)
            => /\ draw.pc = "add"
               /\ Len(draw.winningTickets) >= 1
               /\ LET N == Len(draw.winningTickets)
                      J == draw.lotteryState.jackpot
                      t == draw.winningTickets[draw.i]
                  IN  /\ paid' = Append(paid, [ticket |-> t.id, to |-> t.playerUUID,
                                               amount |-> J \div N])
                      /\ \A k \in 1..Len(paid) : paid[k].ticket # t.id
                      /\ limit = 1 => (J = lottery.jackpot /\ N = Cardinality(tickets))]_vars

\* a draw over several tickets whose number does not divide the jackpot has
\* credited a share
C5_Witness ==
    /\ draw.pc \in {"getCharacter", "add"}
    /\ Len(draw.winningTickets) >= 2
    /\ draw.lotteryState.jackpot % Len(draw.winningTickets) # 0
    /\ Len(paid) >= 1
    /\ paid[1].amount = draw.lotteryState.jackpot \div Len(draw.winningTickets)

\* C6: after each completed draw, scheduled or forced by simulatedraw, with
\* or without tickets, the stored jackpot is the configured initial jackpot
\* (stated for draws that no other operation is interleaved with).
C6_JackpotResetAfterDraw ==
    [][(/\ limit = 1
        /\ \/ draw.pc # "returned" /\ draw'.pc = "returned"
           \/ sim.pc # "idle" /\ sim'.pc = "idle"
        /\ lottery' # NoDoc)
          => lottery'.jackpot = InitialJackpot]_vars

\* C7: when drawWinningNumbers returns, the ticket collection is empty
\* (stated for draws that no other operation is interleaved with).
C7_EmptyOnReturn == (limit = 1 /\ draw.pc = "returned") => tickets = {}

\* C7, amended: when drawWinningNumbers returns after having found a
\* LotteryState, every ticket of its final listing (line 174) has been
\* deleted, and the collection is empty if that listing was empty or no other
\* operation was interleaved; without a LotteryState it deletes nothing.
C7_ListedTicketsDeleted ==
    [][(draw.pc # "returned" /\ draw'.pc = "returned")
          => IF draw.pc = "getState"
             THEN UNCHANGED tickets
             ELSE /\ \A k \in 1..Len(draw.allTickets) : draw.allTickets[k] \notin tickets'
                  /\ (draw.pc = "getAll2" \/ limit = 1) => tickets' = {}]_vars

\* a draw has returned its winning numbers after deleting the tickets it
\* listed, and a ticket bought meanwhile is still in the collection
C7_Witness == draw.pc = "returned" /\ draw.result # <<>> /\ tickets # {}

IsDrawResult(numbers) ==
    /\ Len(numbers) = 6
    /\ \A k \in 1..Len(numbers) : numbers[k] \in 1..49
    /\ \A j, k \in 1..Len(numbers) : j # k => numbers[j] # numbers[k]

\* C8: every call of drawWinningNumbers returns exactly 6 pairwise distinct
\* integers in [1,49].
C8_SixDistinct == draw.pc = "returned" => IsDrawResult(draw.result)

\* C8, amended: a call of drawWinningNumbers that finds a LotteryState
\* returns exactly 6 pairwise distinct integers in [1,49]; a call that finds
\* none returns the empty list.
C8_SixDistinctOrEmpty ==
    [][(draw.pc # "returned" /\ draw'.pc = "returned")
          => IF draw.pc = "getState"
             THEN lottery = NoDoc /\ draw'.result = <<>>
             ELSE IsDrawResult(draw'.result)]_vars

\* a draw has returned six numbers
C8_Witness == draw.pc = "returned" /\ Len(draw.result) = 6

TimeOfDay(t) == t % TicksPerDay
DrawTimeOfDay == DrawHour * TicksPerHour + DrawMinute * TicksPerMinute

\* C10: whenever scheduleDraw has run at clock reading now, the timer is set
\* to an instant at 18:00, of the day of now if 18:00 has not yet passed at
\* now and of the following day if it has; the instant is never before now.
C10_NextDrawInstant ==
    timer # NoTimer
      => /\ TimeOfDay(timer) = DrawTimeOfDay
         /\ DayOf(timer) = IF TimeOfDay(now) <= DrawTimeOfDay THEN DayOf(now) ELSE DayOf(now) + 1
         /\ timer >= now

\* scheduleDraw, run at 19:00, has set the timer to 18:00 of the following day
C10_Witness ==
    /\ TimeOfDay(now) = (DrawHour + 1) * TicksPerHour
    /\ timer = DateAt(DayOf(now) + 1, DrawHour, DrawMinute)

\* C11: when drawWinningNumbers has returned to the timer callback, the next
\* timer is set for a later calendar day than the day of the draw that just
\* ran, whatever the instant the draw finishes at: no two scheduled draws
\* run for the same day.
C11_NextDrawNextDay ==
    [][(draw.pc = "returned" /\ draw'.pc = "idle") => DayOf(timer') > DayOf(now)]_vars

\* the tokens of a number string, in order
Tokens(s) == SelectSeq(s, LAMBDA x : x # SP)
IsInteger(tok) == ~isNaN(Number(tok)) /\ Number(tok).f = 0

\* C12: parseTicketNumbers returns null exactly when the input has not 6
\* tokens, or a token is not an integer, or a value lies outside [1,49];
\* otherwise it returns the 6 integers in input order.
C12_ParseExact ==
    [][\A c \in Calls :
          (buy[c].pc = "called" /\ buy'[c] # buy[c])
            => LET toks == Tokens(buy[c].numbers)
               IN  IF \/ TokenCount(buy[c].numbers) # NumberCount
                      \/ \E k \in 1..Len(toks) : ~IsInteger(toks[k])
                      \/ \E k \in 1..Len(toks) : OutOfRange(toks[k])
                   THEN buy'[c].pc = "return" /\ buy'[c].result = Null
                   ELSE /\ buy'[c].pc = "getTicket"
                        /\ buy'[c].ticketNumbers = [k \in 1..Len(toks) |-> Number(toks[k])]]_vars

\* C13: in every reachable state the winning numbers stored in LotteryState
\* are 6 distinct integers in [1,49], whichever operation wrote them last
\* (stated for states whose stored list is not the empty list that
\* initialization writes).
C13_StoredWinningNumbers ==
    (lottery # NoDoc /\ lottery.winningNumbers # <<>>) => IsDrawResult(lottery.winningNumbers)

C15_TimerNeverStops ==
    init = "done" => (timer # NoTimer \/ draw.pc \notin {"idle", "rejected"})

\* C16: a failure of an external call made during a draw is caught at the
\* outermost boundary of that draw: the timer callback never ends in an
\* unhandled rejection (the simulatedraw command ends in its catch block).
C16_DrawFailureCaught == draw.pc # "rejected"

\* C17: no lock spans the read-modify-write of LotteryState in buyTicket: the
\* call stores the jackpot it read at line 109 plus one ticket price,
\* whatever has been written to the record since, and succeeds.  Two
\* interleaved calls of different identities can therefore both succeed
\* while the jackpot ends raised by one ticket price only.
C17_LastWriteWins ==
    [][\A c \in Calls :
          /\ (buy[c].pc = "getState" /\ buy'[c].pc = "update")
               => buy'[c].lotteryState = [lottery EXCEPT !.jackpot = @ + TicketPrice]
          /\ (buy[c].pc = "update" /\ buy'[c] # buy[c])
               => /\ lottery' = buy[c].lotteryState
                  /\ buy'[c].pc = "return"
                  /\ buy'[c].result = buy[c].newTicket]_vars

\* Two identities have each been debited and have their ticket in the store,
\* and no draw has run.  The call of one has raised the stored jackpot to the
\* initial one plus one ticket price; the call of the other read the jackpot
\* before that and is about to store the same value.
C17_Witness ==
    /\ draw.pc = "idle" /\ sim.pc = "idle"
    /\ timer # NoTimer /\ now < timer
    /\ lottery # NoDoc
    /\ lottery.winningNumbers = <<>>
    /\ lottery.jackpot = InitialJackpot + TicketPrice
    /\ \E c \in Calls, t \in tickets :
          /\ buy[c].pc = "update"
          /\ buy[c].lotteryState.jackpot = InitialJackpot + TicketPrice
          /\ t.playerUUID # buy[c].player
          /\ tickets = {t, buy[c].newTicket}
          /\ cash[t.playerUUID] = Rest
          /\ cash[buy[c].player] = Rest
          /\ \A d \in Calls \ {c} : buy[d].pc = "idle"

\* C18: if no LotteryState record exists, drawWinningNumbers writes nothing
\* to the store, credits nobody, broadcasts nothing, deletes no ticket and
\* returns the empty list.
C18_NoStateNoOp ==
    [][(draw.pc = "getState" /\ lottery = NoDoc /\ draw' # draw /\ draw'.pc # "rejected")
          => /\ draw'.pc = "returned"
             /\ draw'.result = <<>>
             /\ draw'.sent = 0
             /\ UNCHANGED <<lottery, tickets, cash, paid>>]_vars

\* a draw has returned the empty list while tickets are in the store
C18_Witness ==
    /\ draw.pc = "returned"
    /\ draw.result = <<>>
    /\ draw.sent = 0
    /\ lottery = NoDoc
    /\ tickets # {}

\* C19: whenever buyTicket returns null the call has had no effect: it
\* returns null only before the debit of line 89 or when that debit is
\* refused, with the buyer's balance, the tickets and the jackpot as they
\* were.
C19_NullMeansNoEffect ==
    [][\A c \in Calls :
          (buy[c].pc # "return" /\ buy'[c].pc = "return" /\ buy'[c].result = Null)
            => /\ buy[c].pc \in {"idle", "getTicket", "sub"}
               /\ UNCHANGED <<cash, tickets, lottery>>]_vars

\* C20: a ticket record is deleted only by a scheduled draw that has credited
\* a jackpot share for that ticket.
C20_DeletedOnlyIfCredited ==
    [][\A t \in tickets \ tickets' :
          /\ draw.pc = "delete"
          /\ \E k \in 1..Len(paid) : paid[k].ticket = t.id /\ paid[k].to = t.playerUUID]_vars

=============================================================================
